---------------------------- MODULE Spec2Model ----------------------------
(***************************************************************************)
(* A model of the UK vehicle-score screenshot bot (src/bot.py).            *)
(*                                                                         *)
(* Three specifications share the module:                                  *)
(*   SpecNorm  normalize_plate and PLATE_RE applied to bounded texts       *)
(*   SpecShot  one invocation of take_screenshot_full, step by step        *)
(*   Spec      the Telegram handlers start / on_plate_text / on_callback   *)
(*             for a set of chats whose jobs interleave at await points    *)
(***************************************************************************)
EXTENDS Integers, Sequences, FiniteSets, TLC

(***************************************************************************)
(* Bounds of the model.                                                    *)
(***************************************************************************)
\* longest text drawn from the whole alphabet
MaxLen == 3
\* longest text made of letters and digits only (past the 8 of PLATE_RE)
MaxRun == 10
\* scroll heights the page reports: 1..MaxHeight
MaxHeight == 3
\* text messages handled in one run, over all chats
MaxMsgs == 3

(***************************************************************************)
(* Program constants.                                                      *)
(***************************************************************************)
MinPlateLen == 2
MaxPlateLen == 8
MaxScrollSteps == 35
StableNeeded == 3
NoHeight == -1

(***************************************************************************)
(* Characters.  A text is a sequence of characters; the alphabet holds one *)
(* representative of every class the code's string operations tell apart.  *)
(*   "A" "B"   ASCII uppercase letters        "a"  ASCII lowercase letter  *)
(*   "1" "2"   ASCII digits                   "!"  punctuation             *)
(*   " "       the space U+0020               "\t" "\n"  other whitespace  *)
(*   "U+212A"  KELVIN SIGN: an uppercase letter whose lowercase is "k"     *)
(*   "U+0138"  LATIN SMALL LETTER KRA: lowercase, no uppercase mapping     *)
(***************************************************************************)
Alphabet == {"A", "a", "1", "!", " ", "\t", "\n", "U+212A", "U+0138"}

IsWhitespace(c) == c \in {" ", "\t", "\n"}

IsLower(c) == c \in {"a", "U+0138"}

IsAsciiUpper(c) == c \in {"A", "B"}

IsAsciiDigit(c) == c \in {"1", "2"}

\* str.upper() on one character
UpperChar(c) == IF c = "a" THEN "A" ELSE c

\* str.strip(): drop leading and trailing whitespace of every kind
RECURSIVE LStrip(_)
LStrip(s) ==
    IF s # << >> /\ IsWhitespace(Head(s)) THEN LStrip(Tail(s)) ELSE s

RECURSIVE RStrip(_)
RStrip(s) ==
    IF s # << >> /\ IsWhitespace(s[Len(s)])
    THEN RStrip(SubSeq(s, 1, Len(s) - 1))
    ELSE s

Strip(s) == RStrip(LStrip(s))

Upper(s) == [i \in 1..Len(s) |-> UpperChar(s[i])]

\* str.replace(" ", ""): drop every U+0020, and nothing else
RemoveSpaces(s) == SelectSeq(s, LAMBDA c : c # " ")

\* A plausible slip: the replace step left out.
normalize_plate_keeps_spaces(text) == Upper(Strip(text))

normalize_plate(text) == RemoveSpaces(Upper(Strip(text)))

\* [A-Z0-9] under re.IGNORECASE on a str pattern: the ASCII letters of both
\* cases, the digits, and the non-ASCII letters that case-fold to an ASCII
\* letter (KELVIN SIGN among them).
ClassMatch(c) ==
    IsAsciiUpper(c) \/ c = "a" \/ IsAsciiDigit(c) \/ c = "U+212A"

BodyMatch(s) ==
    /\ Len(s) >= MinPlateLen
    /\ Len(s) <= MaxPlateLen
    /\ \A i \in 1..Len(s) : ClassMatch(s[i])

\* ^...$ : "$" matches at the end and just before a newline that ends the text
PLATE_RE(s) ==
    \/ BodyMatch(s)
    \/ /\ s # << >>
       /\ s[Len(s)] = "\n"
       /\ BodyMatch(SubSeq(s, 1, Len(s) - 1))


(***************************************************************************)
(* State.                                                                  *)
(*   n*    normalize_plate / PLATE_RE applied to one text                  *)
(*   e*, pw, browser, ctx, page, gotoResult, i, lastHeight, stableCount,   *)
(*   iters, readings, scrolledTop   one call of take_screenshot_full       *)
(*   user_data .. exit              the handlers, per chat; plate, url and *)
(*                                  out_path are on_callback's locals      *)
(***************************************************************************)
VARIABLES
    nText, nPlate, nOk, nPc,
    epc, pw, browser, ctx, page, gotoResult, eExc, eWritten,
    i, lastHeight, stableCount, iters, readings, scrolledTop,
    user_data, pc, plate, url, out_path, exc, files, reply, msgs,
    lastEvent, capCalls, errSent, unlinkTried, failure, exit

nvars == <<nText, nPlate, nOk, nPc>>

evars == <<epc, pw, browser, ctx, page, gotoResult, eExc, eWritten,
           i, lastHeight, stableCount, iters, readings, scrolledTop>>

bvars == <<user_data, pc, plate, url, out_path, exc, files, reply, msgs,
           lastEvent, capCalls, errSent, unlinkTried, failure, exit>>

vars == <<nvars, evars, bvars>>

(***************************************************************************)
(* take_screenshot_full, one step per await.                               *)
(***************************************************************************)
Heights == 1..MaxHeight

\* state on entry to take_screenshot_full
InitShot ==
    /\ epc = "pw_start"
    /\ pw = "none"
    /\ browser = "none"
    /\ ctx = "none"
    /\ page = FALSE
    /\ gotoResult = "none"
    /\ eExc = "none"
    /\ eWritten = FALSE
    /\ i = 0
    /\ lastHeight = NoHeight
    /\ stableCount = 0
    /\ iters = 0
    /\ readings = << >>
    /\ scrolledTop = FALSE

\* an exception raised inside the try block runs the finally block
ToFinally(kind) ==
    /\ eExc' = kind
    /\ epc' = "ctx_close"

\* an exception raised outside the try block leaves through "async with" only
ToExit(kind) ==
    /\ eExc' = kind
    /\ epc' = "pw_exit"

\* async with async_playwright() as p: the driver starts
PwStart ==
    /\ epc = "pw_start"
    /\ \/ /\ pw' = "running"
          /\ epc' = "launch"
          /\ UNCHANGED eExc
       \/ /\ eExc' = "Error"
          /\ epc' = "raised"
          /\ UNCHANGED pw
    /\ UNCHANGED <<browser, ctx, page, gotoResult, eWritten, i, lastHeight,
                   stableCount, iters, readings, scrolledTop>>
    /\ UNCHANGED <<nvars, bvars>>

Launch ==
    /\ epc = "launch"
    /\ \/ /\ browser' = "open"
          /\ epc' = "new_context"
          /\ UNCHANGED eExc
       \/ /\ ToExit("Error")
          /\ UNCHANGED browser
    /\ UNCHANGED <<pw, ctx, page, gotoResult, eWritten, i, lastHeight,
                   stableCount, iters, readings, scrolledTop>>
    /\ UNCHANGED <<nvars, bvars>>

NewContext ==
    /\ epc = "new_context"
    /\ \/ /\ ctx' = "open"
          /\ epc' = "new_page"
          /\ UNCHANGED eExc
       \/ /\ ToExit("Error")
          /\ UNCHANGED ctx
    /\ UNCHANGED <<pw, browser, page, gotoResult, eWritten, i, lastHeight,
                   stableCount, iters, readings, scrolledTop>>
    /\ UNCHANGED <<nvars, bvars>>

NewPage ==
    /\ epc = "new_page"
    /\ \/ /\ page' = TRUE
          /\ epc' = "goto"
          /\ UNCHANGED eExc
       \/ /\ ToExit("Error")
          /\ UNCHANGED page
    /\ UNCHANGED <<pw, browser, ctx, gotoResult, eWritten, i, lastHeight,
                   stableCount, iters, readings, scrolledTop>>
    /\ UNCHANGED <<nvars, bvars>>

\* A variant that swallows the navigation timeout and carries on.
GotoRaises_swallow_timeout(r) == r = "error"

\* page.goto raises on a timeout and on any other navigation error alike:
\* the try block has no except clause
GotoRaises(r) == r # "ok"

GotoExc(r) == IF r = "timeout" THEN "TimeoutError" ELSE "Error"

Goto ==
    /\ epc = "goto"
    /\ \E r \in {"ok", "timeout", "error"} :
        /\ gotoResult' = r
        /\ IF GotoRaises(r)
           THEN ToFinally(GotoExc(r))
           ELSE /\ epc' = "wait1"
                /\ UNCHANGED eExc
    /\ UNCHANGED <<pw, browser, ctx, page, eWritten, i, lastHeight,
                   stableCount, iters, readings, scrolledTop>>
    /\ UNCHANGED <<nvars, bvars>>

\* page.wait_for_timeout(2500)
Wait1 ==
    /\ epc = "wait1"
    /\ \/ /\ epc' = "wait2"
          /\ UNCHANGED eExc
       \/ ToFinally("Error")
    /\ UNCHANGED <<pw, browser, ctx, page, gotoResult, eWritten, i,
                   lastHeight, stableCount, iters, readings, scrolledTop>>
    /\ UNCHANGED <<nvars, bvars>>

\* page.wait_for_timeout(8000)
Wait2 ==
    /\ epc = "wait2"
    /\ \/ /\ epc' = "scroll"
          /\ UNCHANGED eExc
       \/ ToFinally("Error")
    /\ UNCHANGED <<pw, browser, ctx, page, gotoResult, eWritten, i,
                   lastHeight, stableCount, iters, readings, scrolledTop>>
    /\ UNCHANGED <<nvars, bvars>>

\* A variant whose streak survives a differing reading.
NextStable_no_reset(h, last, stable) ==
    IF h = last THEN stable + 1 ELSE stable

\* if (h === lastHeight) stableCount++ else stableCount = 0
NextStable(h, last, stable) ==
    IF h = last THEN stable + 1 ELSE 0

\* if (stableCount >= 3) break, taken only in the "equal" branch
Breaks(h, last, stable) ==
    h = last /\ NextStable(h, last, stable) >= StableNeeded

\* the last four readings, the newest last
Recent(rs, h) ==
    LET all == Append(rs, h)
    IN  IF Len(all) > StableNeeded + 1
        THEN SubSeq(all, Len(all) - StableNeeded, Len(all))
        ELSE all

\* one iteration of the for loop inside page.evaluate
ScrollIter ==
    /\ epc = "scroll"
    /\ i < MaxScrollSteps
    /\ \E h \in Heights :
        /\ iters' = iters + 1
        /\ readings' = Recent(readings, h)
        /\ stableCount' = NextStable(h, lastHeight, stableCount)
        /\ IF Breaks(h, lastHeight, stableCount)
           THEN /\ epc' = "settle"
                /\ UNCHANGED <<i, lastHeight>>
           ELSE /\ lastHeight' = h
                /\ i' = i + 1
                /\ epc' = IF i + 1 < MaxScrollSteps THEN "scroll" ELSE "settle"
    /\ UNCHANGED <<pw, browser, ctx, page, gotoResult, eExc, eWritten,
                   scrolledTop>>
    /\ UNCHANGED <<nvars, bvars>>

\* await sleep(1500)
Settle ==
    /\ epc = "settle"
    /\ epc' = "top"
    /\ UNCHANGED <<pw, browser, ctx, page, gotoResult, eExc, eWritten, i,
                   lastHeight, stableCount, iters, readings, scrolledTop>>
    /\ UNCHANGED <<nvars, bvars>>

\* scroller.scrollTo(0, 0); await sleep(900); the script returns
ScrollTop ==
    /\ epc = "top"
    /\ scrolledTop' = TRUE
    /\ epc' = "screenshot"
    /\ UNCHANGED <<pw, browser, ctx, page, gotoResult, eExc, eWritten, i,
                   lastHeight, stableCount, iters, readings>>
    /\ UNCHANGED <<nvars, bvars>>

\* page.evaluate raises while the script runs (page crashed, context
\* destroyed by a navigation, script error)
EvalFail ==
    /\ epc \in {"scroll", "settle", "top"}
    /\ ToFinally("Error")
    /\ UNCHANGED <<pw, browser, ctx, page, gotoResult, eWritten, i,
                   lastHeight, stableCount, iters, readings, scrolledTop>>
    /\ UNCHANGED <<nvars, bvars>>

Screenshot ==
    /\ epc = "screenshot"
    /\ \/ /\ eWritten' = TRUE
          /\ epc' = "ctx_close"
          /\ UNCHANGED eExc
       \/ /\ ToFinally("Error")
          /\ UNCHANGED eWritten
    /\ UNCHANGED <<pw, browser, ctx, page, gotoResult, i, lastHeight,
                   stableCount, iters, readings, scrolledTop>>
    /\ UNCHANGED <<nvars, bvars>>

\* finally: await context.close()
CtxClose ==
    /\ epc = "ctx_close"
    /\ \/ /\ ctx' = "closed"
          /\ epc' = "br_close"
          /\ UNCHANGED eExc
       \/ /\ ctx' = "close_failed"
          /\ ToExit("Error")
    /\ UNCHANGED <<pw, browser, page, gotoResult, eWritten, i, lastHeight,
                   stableCount, iters, readings, scrolledTop>>
    /\ UNCHANGED <<nvars, bvars>>

\* finally: await browser.close()
BrClose ==
    /\ epc = "br_close"
    /\ \/ /\ browser' = "closed"
          /\ epc' = "pw_exit"
          /\ UNCHANGED eExc
       \/ /\ browser' = "close_failed"
          /\ ToExit("Error")
    /\ UNCHANGED <<pw, ctx, page, gotoResult, eWritten, i, lastHeight,
                   stableCount, iters, readings, scrolledTop>>
    /\ UNCHANGED <<nvars, bvars>>

\* leaving "async with": the driver is stopped, then the call returns or raises
PwExit ==
    /\ epc = "pw_exit"
    /\ pw' = "stopped"
    /\ epc' = IF eExc = "none" THEN "returned" ELSE "raised"
    /\ UNCHANGED <<browser, ctx, page, gotoResult, eExc, eWritten, i,
                   lastHeight, stableCount, iters, readings, scrolledTop>>
    /\ UNCHANGED <<nvars, bvars>>

take_screenshot_full ==
    \/ PwStart \/ Launch \/ NewContext \/ NewPage \/ Goto \/ Wait1 \/ Wait2
    \/ ScrollIter \/ Settle \/ ScrollTop \/ EvalFail \/ Screenshot
    \/ CtxClose \/ BrClose \/ PwExit

ShotDone == epc \in {"returned", "raised"}


(***************************************************************************)
(* The Telegram handlers.  A handler of a chat runs to its end before the  *)
(* next update of that chat is handled; handlers of different chats        *)
(* interleave at the await points of on_callback.                          *)
(***************************************************************************)
Chats == {"c1", "c2"}

\* texts a user sends: "a 1" and "B2" pass validation once normalized,
\* "A!1" does not
Texts == { <<"a", " ", "1">>, <<"B", "2">>, <<"A", "!", "1">> }

\* context.user_data.get("plate") of a session that stored none
NoPlate == << >>

\* BASE_URL.format(reg=plate): the plate appended as it is, unencoded
BASE_URL(reg) == <<"https://vehiclescore.co.uk/score?registration=">> \o reg

\* str(TMP_DIR / f"{plate}.png")
OutPath(p) == <<"/tmp/">> \o p \o <<".png">>

Paths ==
    { OutPath(p) : p \in { normalize_plate(t) : t \in Texts }
                          \cup Texts \cup {NoPlate} }

Reply(kind, p, link, img, err) ==
    [kind |-> kind, plate |-> p, link |-> link, img |-> img, err |-> err]

NoReply == Reply("none", << >>, << >>, "none", "none")

InitBot ==
    /\ user_data = [c \in Chats |-> NoPlate]
    /\ pc = [c \in Chats |-> "idle"]
    /\ plate = [c \in Chats |-> NoPlate]
    /\ url = [c \in Chats |-> << >>]
    /\ out_path = [c \in Chats |-> << >>]
    /\ exc = [c \in Chats |-> "none"]
    /\ files = [p \in Paths |-> "absent"]
    /\ reply = [c \in Chats |-> NoReply]
    /\ msgs = [c \in Chats |-> << >>]
    /\ lastEvent = [c \in Chats |-> "none"]
    /\ capCalls = [c \in Chats |-> 0]
    /\ errSent = [c \in Chats |-> 0]
    /\ unlinkTried = [c \in Chats |-> FALSE]
    /\ failure = [c \in Chats |-> "none"]
    /\ exit = [c \in Chats |-> "none"]

\* a handler that answers with a message is entered for chat c: the record of
\* the previous one's run (lastEvent, capCalls, errSent, unlinkTried,
\* failure) starts afresh
Enter(c, event) ==
    /\ pc[c] = "idle"
    /\ lastEvent' = [lastEvent EXCEPT ![c] = event]
    /\ capCalls' = [capCalls EXCEPT ![c] = 0]
    /\ errSent' = [errSent EXCEPT ![c] = 0]
    /\ unlinkTried' = [unlinkTried EXCEPT ![c] = FALSE]
    /\ failure' = [failure EXCEPT ![c] = "none"]

RECURSIVE SumLen(_)
SumLen(S) ==
    IF S = {}
    THEN 0
    ELSE LET c == CHOOSE x \in S : TRUE
         IN  Len(msgs[c]) + SumLen(S \ {c})

\* text messages handled so far, over all chats
Handled == SumLen(Chats)

start(c) ==
    /\ Enter(c, "start")
    /\ reply' = [reply EXCEPT ![c] =
                    Reply("start_help", << >>, << >>, "none", "none")]
    /\ exit' = [exit EXCEPT ![c] = "returned"]
    /\ UNCHANGED <<user_data, pc, plate, url, out_path, exc, files, msgs>>
    /\ UNCHANGED <<nvars, evars>>

\* A variant that stores the plate before it is validated.
StoredAfterText_unvalidated(old, text) == normalize_plate(text)

\* A variant that stores the text as it was typed.
StoredAfterText_raw(old, text) ==
    IF PLATE_RE(normalize_plate(text)) THEN text ELSE old

\* user_data["plate"] after on_plate_text
StoredAfterText(old, text) ==
    IF PLATE_RE(normalize_plate(text)) THEN normalize_plate(text) ELSE old

on_plate_text(c, text) ==
    /\ Enter(c, "text")
    /\ Handled < MaxMsgs
    /\ msgs' = [msgs EXCEPT ![c] = Append(@, text)]
    /\ user_data' = [user_data EXCEPT ![c] = StoredAfterText(@, text)]
    /\ LET p == normalize_plate(text)
       IN  reply' = [reply EXCEPT ![c] =
               IF ~PLATE_RE(p)
               THEN Reply("format_rejected", << >>, << >>, "none", "none")
               ELSE Reply("plate_keyboard", p, BASE_URL(p), "none", "none")]
    /\ exit' = [exit EXCEPT ![c] = "returned"]
    /\ UNCHANGED <<pc, plate, url, out_path, exc, files>>
    /\ UNCHANGED <<nvars, evars>>

\* A variant without the "if not plate" guard.
HasPlate_always(p) == TRUE

\* "if not plate" is false: a plate is stored and is not empty
HasPlate(p) == p # NoPlate

\* on_callback up to its first await inside the job; a callback whose data
\* is not "shot" is answered (query.answer) and nothing else happens
on_callback(c, data) ==
    /\ pc[c] = "idle"
    /\ IF data # "shot"
       THEN /\ exit' = [exit EXCEPT ![c] = "returned"]
            /\ UNCHANGED <<pc, plate, url, out_path, reply, lastEvent,
                           capCalls, errSent, unlinkTried, failure>>
       ELSE /\ Enter(c, "shot")
            /\ IF ~HasPlate(user_data[c])
               THEN /\ reply' = [reply EXCEPT ![c] =
                           Reply("send_plate_first", << >>, << >>,
                                 "none", "none")]
                    /\ exit' = [exit EXCEPT ![c] = "returned"]
                    /\ UNCHANGED <<pc, plate, url, out_path>>
               ELSE /\ plate' = [plate EXCEPT ![c] = user_data[c]]
                    /\ url' = [url EXCEPT ![c] = BASE_URL(user_data[c])]
                    /\ out_path' = [out_path EXCEPT ![c] =
                                       OutPath(user_data[c])]
                    /\ reply' = [reply EXCEPT ![c] =
                           Reply("progress", user_data[c], << >>,
                                 "none", "none")]
                    /\ pc' = [pc EXCEPT ![c] = "capture"]
                    /\ exit' = [exit EXCEPT ![c] = "none"]
    /\ UNCHANGED <<user_data, exc, files, msgs>>
    /\ UNCHANGED <<nvars, evars>>

\* A variant whose try statement has no except clause.
Raise_uncaught(c, kind) ==
    /\ failure' = [failure EXCEPT ![c] = kind]
    /\ exc' = [exc EXCEPT ![c] = kind]
    /\ pc' = [pc EXCEPT ![c] = "finally"]

\* an exception inside the try block of on_callback reaches "except Exception"
Raise(c, kind) ==
    /\ failure' = [failure EXCEPT ![c] = kind]
    /\ exc' = [exc EXCEPT ![c] = kind]
    /\ pc' = [pc EXCEPT ![c] = "except"]

\* await take_screenshot_full(url, out_path), up to its finally block:
\* page.screenshot has written out_path, or a step before it has raised
CaptureRun(c) ==
    /\ pc[c] = "capture"
    /\ capCalls' = [capCalls EXCEPT ![c] = @ + 1]
    /\ \/ /\ files' = [files EXCEPT ![out_path[c]] = c]
          /\ UNCHANGED exc
       \/ /\ \E kind \in {"TimeoutError", "Error"} :
                exc' = [exc EXCEPT ![c] = kind]
          /\ UNCHANGED files
    /\ pc' = [pc EXCEPT ![c] = "closing"]
    /\ UNCHANGED <<user_data, plate, url, out_path, reply, msgs, lastEvent,
                   errSent, unlinkTried, failure, exit>>
    /\ UNCHANGED <<nvars, evars>>

\* take_screenshot_full closes and returns to on_callback, or raises
CaptureReturn(c) ==
    /\ pc[c] = "closing"
    /\ \E closed \in BOOLEAN :
        LET e == IF closed THEN exc[c] ELSE "Error"
        IN  IF e = "none"
            THEN /\ pc' = [pc EXCEPT ![c] = "send"]
                 /\ UNCHANGED <<exc, failure>>
            ELSE Raise(c, e)
    /\ UNCHANGED <<user_data, plate, url, out_path, files, reply, msgs,
                   lastEvent, capCalls, errSent, unlinkTried, exit>>
    /\ UNCHANGED <<nvars, evars>>

\* query.message.reply_photo(photo=open(out_path, "rb"), caption=...)
SendPhoto(c) ==
    /\ pc[c] = "send"
    /\ IF files[out_path[c]] = "absent"
       THEN /\ Raise(c, "FileNotFoundError")
            /\ UNCHANGED reply
       ELSE \/ /\ reply' = [reply EXCEPT ![c] =
                      Reply("photo", plate[c], url[c],
                            files[out_path[c]], "none")]
               /\ pc' = [pc EXCEPT ![c] = "finally"]
               /\ UNCHANGED <<exc, failure>>
            \/ /\ Raise(c, "TelegramError")
               /\ UNCHANGED reply
    /\ UNCHANGED <<user_data, plate, url, out_path, files, msgs, lastEvent,
                   capCalls, errSent, unlinkTried, exit>>
    /\ UNCHANGED <<nvars, evars>>

\* except Exception as e: reply_text(f"... {type(e).__name__}: {e}")
ErrorReply(c) ==
    /\ pc[c] = "except"
    /\ reply' = [reply EXCEPT ![c] =
                    Reply("error", << >>, << >>, "none", exc[c])]
    /\ errSent' = [errSent EXCEPT ![c] = @ + 1]
    /\ exc' = [exc EXCEPT ![c] = "none"]
    /\ pc' = [pc EXCEPT ![c] = "finally"]
    /\ UNCHANGED <<user_data, plate, url, out_path, files, msgs, lastEvent,
                   capCalls, unlinkTried, failure, exit>>
    /\ UNCHANGED <<nvars, evars>>

\* finally: Path(out_path).unlink(missing_ok=True), its failure swallowed;
\* the handler ends
Unlink(c) ==
    /\ pc[c] = "finally"
    /\ unlinkTried' = [unlinkTried EXCEPT ![c] = TRUE]
    /\ \/ files' = [files EXCEPT ![out_path[c]] = "absent"]
       \/ UNCHANGED files
    /\ exit' = [exit EXCEPT ![c] =
                   IF exc[c] = "none" THEN "returned" ELSE "raised"]
    /\ exc' = [exc EXCEPT ![c] = "none"]
    /\ plate' = [plate EXCEPT ![c] = NoPlate]
    /\ url' = [url EXCEPT ![c] = << >>]
    /\ out_path' = [out_path EXCEPT ![c] = << >>]
    /\ pc' = [pc EXCEPT ![c] = "idle"]
    /\ UNCHANGED <<user_data, reply, msgs, lastEvent, capCalls, errSent,
                   failure>>
    /\ UNCHANGED <<nvars, evars>>


(***************************************************************************)
(* normalize_plate and PLATE_RE on one text, as on_plate_text applies them.*)
(***************************************************************************)
RECURSIVE SeqsUpTo(_, _)
SeqsUpTo(S, n) ==
    IF n = 0
    THEN { << >> }
    ELSE LET shorter == SeqsUpTo(S, n - 1)
         IN  shorter \cup { Append(s, c) : s \in shorter, c \in S }

\* every text of up to MaxLen characters, and runs of one letter up to MaxRun
Inputs ==
    SeqsUpTo(Alphabet, MaxLen)
        \cup { [k \in 1..n |-> "A"] : n \in 1..MaxRun }
        \cup { [k \in 1..n |-> IF k = 1 THEN "a" ELSE "1"] : n \in 1..MaxRun }

InitNorm ==
    /\ nText \in Inputs
    /\ nPlate = << >>
    /\ nOk = FALSE
    /\ nPc = "text"

\* plate = normalize_plate(update.message.text)
Normalize ==
    /\ nPc = "text"
    /\ nPlate' = normalize_plate(nText)
    /\ nPc' = "normalized"
    /\ UNCHANGED <<nText, nOk>>
    /\ UNCHANGED <<evars, bvars>>

\* PLATE_RE.match(plate)
Validate ==
    /\ nPc = "normalized"
    /\ nOk' = PLATE_RE(nPlate)
    /\ nPc' = "validated"
    /\ UNCHANGED <<nText, nPlate>>
    /\ UNCHANGED <<evars, bvars>>

(***************************************************************************)
(* Specifications.                                                         *)
(***************************************************************************)
NormOff ==
    /\ nText = << >>
    /\ nPlate = << >>
    /\ nOk = FALSE
    /\ nPc = "off"

InitSpecNorm == InitNorm /\ InitShot /\ InitBot

NextNorm == Normalize \/ Validate

SpecNorm == InitSpecNorm /\ [][NextNorm]_vars

Init == NormOff /\ InitShot /\ InitBot

SpecShot == Init /\ [][take_screenshot_full]_vars

\* every step of take_screenshot_full is a timer or a browser call that ends
SpecShotFair == SpecShot /\ WF_vars(take_screenshot_full)

Next ==
    \E c \in Chats :
        \/ start(c)
        \/ \E text \in Texts : on_plate_text(c, text)
        \/ \E data \in {"shot", "other"} : on_callback(c, data)
        \/ CaptureRun(c)
        \/ CaptureReturn(c)
        \/ SendPhoto(c)
        \/ ErrorReply(c)
        \/ Unlink(c)

Spec == Init /\ [][Next]_vars


(***************************************************************************)
(* Claims about take_screenshot_full (SpecShot, SpecShotFair).             *)
(***************************************************************************)

\* C1: whichever step fails, and on success too, the browser context and the
\* browser that were opened have been closed when take_screenshot_full
\* returns or raises.
C1_OpenedAreClosed ==
    ShotDone =>
        /\ browser \in {"none", "closed"}
        /\ ctx \in {"none", "closed"}

Streak(rs) ==
    /\ Len(rs) = 4
    /\ rs[1] = rs[2]
    /\ rs[2] = rs[3]
    /\ rs[3] = rs[4]

LoopEnded == epc \in {"settle", "top", "screenshot"} \/ scrolledTop

C9_LoopInv ==
    /\ iters <= 35
    /\ epc = "scroll" => (iters < 35 /\ ~Streak(readings))
    /\ LoopEnded => (Streak(readings) \/ iters = 35)
    /\ eWritten => scrolledTop

C9_LoopStep ==
    /\ (epc = "scroll" /\ epc' = "scroll") =>
            (iters' = iters + 1 /\ ~Streak(readings'))
    /\ (epc = "scroll" /\ epc' # "scroll") =>
            \/ epc' = "settle" /\ iters' = iters + 1
            \/ epc' = "ctx_close" /\ eExc' # "none"
    /\ epc = "settle" => (epc' = "top" \/ eExc' # "none")
    /\ epc = "top" => ((epc' = "screenshot" /\ scrolledTop') \/ eExc' # "none")
    /\ epc = "screenshot" => (eWritten' \/ eExc' # "none")

\* C9: whatever heights the page reports, the scroll loop ends at the first
\* iteration that completes three successive equal comparisons, or after its
\* 35th iteration, never later; the scroll to the top and the screenshot
\* step come next unless the script or the screenshot itself raises.
C9_ScrollLoopBounded ==
    /\ []C9_LoopInv
    /\ [][C9_LoopStep]_vars
    /\ (epc = "scroll") ~> (epc = "screenshot" \/ eExc # "none")
    /\ (epc = "screenshot") ~> (eWritten \/ eExc # "none")

C9_Witness ==
    /\ iters = 35
    /\ ~Streak(readings)
    /\ scrolledTop
    /\ eWritten
    /\ epc = "returned"

(***************************************************************************)
(* Claims about normalize_plate and PLATE_RE (SpecNorm).                   *)
(***************************************************************************)
Outside(c) == ~(IsAsciiUpper(c) \/ IsAsciiDigit(c))

\* C7: the validator accepts every candidate of 2 to 8 characters from A-Z
\* and 0-9, and rejects every candidate that holds a character outside A-Z
\* and 0-9 or is longer than 8 characters.
C7_ValidatorMatchesPattern ==
    nPc = "validated" =>
        /\ ( /\ Len(nPlate) \in 2..8
             /\ \A k \in 1..Len(nPlate) : ~Outside(nPlate[k]) ) => nOk
        /\ ( \/ Len(nPlate) > 8
             \/ \E k \in 1..Len(nPlate) : Outside(nPlate[k]) ) => ~nOk

\* C8 as stated: normalize_plate(s) holds no whitespace of any kind and no
\* lowercase letter.
C8_NoWhitespaceNoLowercase ==
    nPc # "text" =>
        \A k \in 1..Len(nPlate) :
            ~IsWhitespace(nPlate[k]) /\ ~IsLower(nPlate[k])

\* C8 amended: normalize_plate(s) holds no space character (U+0020), neither
\* starts nor ends with whitespace, and holds no ASCII lowercase letter.
C8_NoSpaceNoAsciiLower ==
    nPc # "text" =>
        /\ \A k \in 1..Len(nPlate) : nPlate[k] # " " /\ nPlate[k] # "a"
        /\ nPlate # << >> =>
            /\ ~IsWhitespace(nPlate[1])
            /\ ~IsWhitespace(nPlate[Len(nPlate)])

C8_Witness ==
    /\ nPc = "validated"
    /\ nText = <<"a", " ", "a">>
    /\ nPlate = <<"A", "A">>

(***************************************************************************)
(* Claims about the handlers (Spec).                                       *)
(***************************************************************************)
Valid(text) == PLATE_RE(normalize_plate(text))

NeverValid(ms) == \A k \in 1..Len(ms) : ~Valid(ms[k])

RECURSIVE LastValid(_)
LastValid(ms) ==
    IF ms = << >>
    THEN NoPlate
    ELSE IF Valid(ms[Len(ms)])
         THEN normalize_plate(ms[Len(ms)])
         ELSE LastValid(SubSeq(ms, 1, Len(ms) - 1))

\* C3: two jobs of two different chats that overlap write to different
\* paths, each sends the image of its own capture, and neither deletes a
\* file the other still has to read.
C3_JobsIndependent ==
    /\ \A c \in Chats : \A d \in Chats \ {c} :
          (pc[c] # "idle" /\ pc[d] # "idle") => out_path[c] # out_path[d]
    /\ \A c \in Chats : reply[c].kind = "photo" => reply[c].img = c
    /\ \A c \in Chats : pc[c] = "send" => files[out_path[c]] = c

\* C4: a screenshot action in a session where no text ever passed validation
\* is answered with "send a plate first" and never reaches
\* take_screenshot_full; a capture only ever runs on the URL built from the
\* plate stored in its session.
C4_NoPlateNoCapture ==
    \A c \in Chats :
        /\ NeverValid(msgs[c]) => (pc[c] = "idle" /\ capCalls[c] = 0)
        /\ (NeverValid(msgs[c]) /\ lastEvent[c] = "shot") =>
                reply[c].kind = "send_plate_first"
        /\ pc[c] # "idle" =>
                /\ user_data[c] # NoPlate
                /\ \E k \in 1..Len(msgs[c]) :
                      Valid(msgs[c][k]) /\ normalize_plate(msgs[c][k]) = user_data[c]
                /\ plate[c] = user_data[c]
                /\ url[c] = BASE_URL(user_data[c])

C4_Witness ==
    \E c \in Chats :
        /\ Len(msgs[c]) > 0
        /\ NeverValid(msgs[c])
        /\ lastEvent[c] = "shot"
        /\ reply[c].kind = "send_plate_first"

\* C5: a text whose normalized form fails validation is answered with the
\* format rejection, with no URL and no keyboard, and leaves every session
\* as it was.
C5_RejectionKeepsSession ==
    [][ \A c \in Chats :
          (msgs'[c] # msgs[c] /\ ~Valid(msgs'[c][Len(msgs'[c])])) =>
              /\ user_data' = user_data
              /\ reply'[c].kind = "format_rejected"
              /\ reply'[c].link = << >>
              /\ reply'[c].plate = << >>
              /\ url' = url
              /\ pc' = pc ]_vars

C5_Witness ==
    \E c \in Chats :
        /\ lastEvent[c] = "text"
        /\ reply[c].kind = "format_rejected"
        /\ user_data[c] # NoPlate
        /\ ~Valid(msgs[c][Len(msgs[c])])

C10_PlateIsLastValid ==
    \A c \in Chats :
        /\ user_data[c] = LastValid(msgs[c])
        /\ pc[c] # "idle" =>
                /\ plate[c] = LastValid(msgs[c])
                /\ url[c] = BASE_URL(LastValid(msgs[c]))

C10_Witness ==
    \E c \in Chats :
        /\ Len(msgs[c]) = 3
        /\ Valid(msgs[c][1])
        /\ Valid(msgs[c][2])
        /\ normalize_plate(msgs[c][1]) # normalize_plate(msgs[c][2])
        /\ ~Valid(msgs[c][3])
        /\ pc[c] = "capture"
        /\ url[c] = BASE_URL(normalize_plate(msgs[c][2]))

=============================================================================
